---------------------------- MODULE Spec2Model ----------------------------
(***************************************************************************)
(* A model of the diesel-oci adapter: the Oracle query builder             *)
(* (src/oracle/query_builder/mod.rs) and the connection                    *)
(* (src/oracle/connection/mod.rs): error conversion, transaction state and *)
(* health predicate, statement execution, RETURNING loads, batch inserts.  *)
(*                                                                         *)
(* Text is modelled as a sequence of characters, each a string naming it:  *)
(* a character stands for itself, except the backtick, which TLA+ strings  *)
(* cannot hold and which is written Backtick.                              *)
(* Option<T> is modelled as a sequence: << >> is None, <<v>> is Some(v).   *)
(***************************************************************************)
EXTENDS Integers, Sequences, FiniteSets, TLC

VARIABLES
    qb,         \* the OciQueryBuilder under construction: [sql, bind_idx]
    qb_log,     \* history: per builder call, the method and the text it appended
    tm,         \* OCITransactionManager.status: [status, depth] (depth 0 is None)
    is_test_transaction,  \* OCITransactionManager.is_test_transaction
    last,       \* the last transaction or health operation: its input and result
    st          \* the statement operation under way or last run: input, driver
                \* calls made, result

vars == <<qb, qb_log, tm, is_test_transaction, last, st>>

qbVars == <<qb, qb_log>>
connVars == <<tm, is_test_transaction, last>>

(***************************************************************************)
(* Bounds of the model.                                                    *)
(***************************************************************************)
MaxBindParams == 11   \* push_bind_param calls per builder (reaches :in10)
MaxOtherPushes == 2   \* push_sql / push_identifier calls per builder
MaxDepth == 2         \* nested transaction depth explored
MaxRecords == 3       \* records of one batch insert
MaxCols == 2          \* returned columns of a RETURNING statement
MaxRows == 2          \* rows a statement affects or returns

(***************************************************************************)
(* Text helpers.                                                           *)
(***************************************************************************)
Backtick == "BACKTICK"
DQuote == "\""

DigitChar == <<"0", "1", "2", "3", "4", "5", "6", "7", "8", "9">>

RECURSIVE Dec(_)
\* format!("{}", n) for an unsigned integer: its decimal digits.
Dec(n) == IF n < 10 THEN <<DigitChar[n + 1]>>
          ELSE Dec(n \div 10) \o <<DigitChar[(n % 10) + 1]>>

\* char::to_uppercase on the characters of the model's alphabet.
UpperChar(c) ==
    CASE c = "a" -> "A"
      [] c = "b" -> "B"
      [] c = "e" -> "E"
      [] c = "m" -> "M"
      [] c = "n" -> "N"
      [] c = "r" -> "R"
      [] c = "s" -> "S"
      [] c = "u" -> "U"
      [] OTHER -> c

\* str::to_uppercase
to_uppercase(s) == [i \in 1..Len(s) |-> UpperChar(s[i])]

RECURSIVE replace(_, _, _)
\* str::replace(from, to) for a one-character pattern.
replace(s, from, to) ==
    IF s = << >> THEN << >>
    ELSE (IF Head(s) = from THEN to ELSE <<Head(s)>>) \o replace(Tail(s), from, to)

RECURSIVE Concat(_)
Concat(ss) == IF ss = << >> THEN << >> ELSE Head(ss) \o Concat(Tail(ss))

(***************************************************************************)
(* OciQueryBuilder (query_builder/mod.rs).                                 *)
(***************************************************************************)
\* OciQueryBuilder::new() and the derived Default: empty SQL, counter 0.
OciQueryBuilder_new == [sql |-> << >>, bind_idx |-> 0]

\* push_sql: self.sql.push_str(sql)
push_sql(b, sql) == [b EXCEPT !.sql = b.sql \o sql]

\* push_identifier, with the defect of escaping nothing
push_identifier_NoEscape(b, identifier) ==
    push_sql(push_sql(push_sql(b, <<DQuote>>), to_uppercase(identifier)), <<DQuote>>)

\* push_identifier: quote, identifier with each backtick doubled, uppercased, quote
push_identifier(b, identifier) ==
    push_sql(push_sql(push_sql(b, <<DQuote>>),
                      to_uppercase(replace(identifier, Backtick, <<Backtick, Backtick>>))),
             <<DQuote>>)

\* push_bind_param, with the defect of incrementing before formatting
push_bind_param_IncFirst(b) ==
    LET b1 == [b EXCEPT !.bind_idx = b.bind_idx + 1]
    IN  push_sql(b1, <<":", "i", "n">> \o Dec(b1.bind_idx))

\* push_bind_param: format!(":in{}", bind_idx); bind_idx += 1; push_sql
push_bind_param(b) ==
    LET sql == <<":", "i", "n">> \o Dec(b.bind_idx)
    IN  push_sql([b EXCEPT !.bind_idx = b.bind_idx + 1], sql)

\* finish: the accumulated SQL
finish(b) == b.sql

\* The texts and identifiers the model's fragments push.
SqlTexts == { <<"x", "=">>, <<":", "i", "n", "0">> }
Identifiers ==
    { <<"u", "s", "e", "r", " ", "n", "a", "m", "e">>, <<"a", Backtick, "b">>,
      <<"a", DQuote, "b">>, << >> }

\* What a builder call appended: the part of after.sql past the length of before.sql.
Appended(before, after) ==
    SubSeq(after.sql, Len(before.sql) + 1, Len(after.sql))

NumCalls(op) == Cardinality({i \in 1..Len(qb_log) : qb_log[i].op = op})

\* A statement is rendered from a fresh builder: OciQueryBuilder::default() in
\* execute_returning_count, with_prepared_statement and batch_insert, or new().
NewBuilder ==
    /\ qb' = OciQueryBuilder_new
    /\ qb_log' = << >>
    /\ UNCHANGED <<connVars, st>>

PushSql ==
    /\ Len(qb_log) - NumCalls("push_bind_param") < MaxOtherPushes
    /\ \E sql \in SqlTexts :
         /\ qb' = push_sql(qb, sql)
         /\ qb_log' = Append(qb_log, [op |-> "push_sql", arg |-> sql,
                                      text |-> Appended(qb, qb'),
                                      kept |-> SubSeq(qb'.sql, 1, Len(qb.sql)) = qb.sql,
                                      idx |-> qb'.bind_idx])
    /\ UNCHANGED <<connVars, st>>

PushIdentifier ==
    /\ Len(qb_log) - NumCalls("push_bind_param") < MaxOtherPushes
    /\ \E identifier \in Identifiers :
         /\ qb' = push_identifier(qb, identifier)
         /\ qb_log' = Append(qb_log, [op |-> "push_identifier", arg |-> identifier,
                                      text |-> Appended(qb, qb'),
                                      kept |-> SubSeq(qb'.sql, 1, Len(qb.sql)) = qb.sql,
                                      idx |-> qb'.bind_idx])
    /\ UNCHANGED <<connVars, st>>

PushBindParam ==
    /\ NumCalls("push_bind_param") < MaxBindParams
    /\ qb' = push_bind_param(qb)
    /\ qb_log' = Append(qb_log, [op |-> "push_bind_param", arg |-> << >>,
                                 text |-> Appended(qb, qb'),
                                 kept |-> SubSeq(qb'.sql, 1, Len(qb.sql)) = qb.sql,
                                 idx |-> qb'.bind_idx])
    /\ UNCHANGED <<connVars, st>>

InitQB ==
    /\ qb = OciQueryBuilder_new
    /\ qb_log = << >>

NextQB == NewBuilder \/ PushSql \/ PushIdentifier \/ PushBindParam

(***************************************************************************)
(* Error conversion at the driver boundary (connection/mod.rs 150-207).    *)
(***************************************************************************)
\* The variants of oracle::Error that the conversion matches on.
NativeErrors ==
    {"OciError", "DpiError", "NullValue", "ParseError", "OutOfRange",
     "InvalidTypeConversion", "InvalidBindIndex", "InvalidBindName",
     "InvalidColumnIndex", "InvalidColumnName", "InvalidAttributeName",
     "InvalidOperation", "UninitializedBindValue", "NoDataFound",
     "InternalError", "BatchErrors"}

NoError == [kind |-> "none", detail |-> "none"]

\* The conversion, with the defect of reporting no-data-found as a query error
From_ErrorHelper_NotFoundLost(e) ==
    CASE e = "NullValue" ->
           [kind |-> "DeserializationError", detail |-> "UnexpectedNullError"]
      [] e = "ParseError" -> [kind |-> "SerializationError", detail |-> "source"]
      [] e = "OutOfRange" -> [kind |-> "DeserializationError", detail |-> "source"]
      [] e = "InvalidTypeConversion" ->
           [kind |-> "DeserializationError", detail |-> "Cannot convert from to"]
      [] e = "InvalidColumnIndex" ->
           [kind |-> "DeserializationError", detail |-> "UnexpectedEndOfRow"]
      [] e = "InvalidColumnName" ->
           [kind |-> "DeserializationError", detail |-> "Invalid column name"]
      [] OTHER -> [kind |-> "QueryBuilderError", detail |-> "source"]

\* impl From<ErrorHelper> for diesel::result::Error: one arm per variant.
From_ErrorHelper(e) ==
    CASE e = "OciError" -> [kind |-> "QueryBuilderError", detail |-> "source"]
      [] e = "DpiError" -> [kind |-> "QueryBuilderError", detail |-> "source"]
      [] e = "NullValue" ->
           [kind |-> "DeserializationError", detail |-> "UnexpectedNullError"]
      [] e = "ParseError" -> [kind |-> "SerializationError", detail |-> "source"]
      [] e = "OutOfRange" -> [kind |-> "DeserializationError", detail |-> "source"]
      [] e = "InvalidTypeConversion" ->
           [kind |-> "DeserializationError", detail |-> "Cannot convert from to"]
      [] e = "InvalidBindIndex" ->
           [kind |-> "QueryBuilderError", detail |-> "Invalid bind with index"]
      [] e = "InvalidBindName" ->
           [kind |-> "QueryBuilderError", detail |-> "Invalid bind with name"]
      [] e = "InvalidColumnIndex" ->
           [kind |-> "DeserializationError", detail |-> "UnexpectedEndOfRow"]
      [] e = "InvalidColumnName" ->
           [kind |-> "DeserializationError", detail |-> "Invalid column name"]
      [] e = "InvalidAttributeName" ->
           [kind |-> "QueryBuilderError", detail |-> "Invalid attribute name"]
      [] e = "InvalidOperation" ->
           [kind |-> "QueryBuilderError", detail |-> "Invalid operation"]
      [] e = "UninitializedBindValue" ->
           [kind |-> "QueryBuilderError", detail |-> "Uninitialized bind value"]
      [] e = "NoDataFound" -> [kind |-> "NotFound", detail |-> "none"]
      [] e = "InternalError" -> [kind |-> "QueryBuilderError", detail |-> "source"]
      [] e = "BatchErrors" -> [kind |-> "QueryBuilderError", detail |-> "Batch error"]

(***************************************************************************)
(* Transaction state.  status.transaction_depth() is Err in error state,   *)
(* Ok(None) at depth 0 and Ok(Some(depth)) otherwise.                      *)
(***************************************************************************)
\* OCITransactionManager::new(): a valid status with no transaction, no test flag.
OCITransactionManager_new == [status |-> "Valid", depth |-> 0]

InError(t) == t.status = "InError"
NoTransaction(t) == t.status = "Valid" /\ t.depth = 0
Open(t) == t.status = "Valid" /\ t.depth > 0

\* The outcomes of raw.oci_attr::<TransactionInProgress>(): Ok(true), Ok(false), Err.
AttrResults == {"in_progress", "not_in_progress", "attr_error"}

\* .unwrap_or(true)
unwrap_or_true(attr) == attr # "not_in_progress"

\* is_broken, with the defect of ignoring the test-transaction flag
is_broken_IgnoresTestFlag(t, attr, is_test) ==
    InError(t) \/ (Open(t) \/ unwrap_or_true(attr))

\* is_broken, with the defect of the test-transaction flag masking the error state
is_broken_TestMasksError(t, attr, is_test) ==
    (InError(t) \/ (Open(t) \/ unwrap_or_true(attr))) /\ ~is_test

\* is_broken, with the defect of requiring both the manager and the driver to
\* report a transaction
is_broken_BothRequired(t, attr, is_test) ==
    InError(t) \/ ((Open(t) /\ unwrap_or_true(attr)) /\ ~is_test)

\* R2D2Connection::is_broken: depth is Err, or (depth is Some or the driver
\* reports a transaction, an attribute failure counting as one) and not a test
\* transaction.
is_broken(t, attr, is_test) ==
    InError(t) \/ ((Open(t) \/ unwrap_or_true(attr)) /\ ~is_test)

\* The record of a connection operation that has not run.
NoOp ==
    [op |-> "none", outcome |-> "none", native |-> "none", err |-> NoError,
     stmts |-> << >>, result |-> FALSE, attr |-> "none",
     pre_tm |-> OCITransactionManager_new, pre_test |-> FALSE]

\* The record of operation op run in the current state.
Called(op) == [NoOp EXCEPT !.op = op, !.pre_tm = tm, !.pre_test = is_test_transaction]

\* The error every transaction operation reports once the manager is in error.
BrokenManager == [kind |-> "BrokenTransactionManager", detail |-> "none"]
NotInTransaction == [kind |-> "NotInTransaction", detail |-> "none"]

\* The statement begin issues at a depth: BEGIN, or a depth-named savepoint.
BeginSql(depth) ==
    IF depth = 0 THEN [sql |-> "BEGIN", n |-> 0] ELSE [sql |-> "SAVEPOINT", n |-> depth]
CommitSql(depth) ==
    IF depth = 1 THEN [sql |-> "COMMIT", n |-> 0]
    ELSE [sql |-> "RELEASE SAVEPOINT", n |-> depth - 1]
RollbackSql(depth) ==
    IF depth = 1 THEN [sql |-> "ROLLBACK", n |-> 0]
    ELSE [sql |-> "ROLLBACK TO SAVEPOINT", n |-> depth - 1]

\* The result of one transaction-control call: the manager's next status and
\* the operation's record.  exec is "ok" or the driver error of the statement.
TxControl(rec, sql, newDepth, exec) ==
    IF InError(tm) THEN
        [tm |-> tm, rec |-> [rec EXCEPT !.outcome = "err", !.err = BrokenManager]]
    ELSE IF exec = "ok" THEN
        [tm |-> [tm EXCEPT !.depth = newDepth],
         rec |-> [rec EXCEPT !.outcome = "ok", !.stmts = <<sql>>]]
    ELSE
        [tm |-> [tm EXCEPT !.status = "InError"],
         rec |-> [rec EXCEPT !.outcome = "err", !.native = exec,
                             !.err = From_ErrorHelper(exec), !.stmts = <<sql>>]]

ExecResults == {"ok"} \cup NativeErrors

\* TransactionManager::begin_transaction
begin_transaction ==
    /\ tm.depth < MaxDepth
    /\ \E exec \in ExecResults :
         LET r == TxControl(Called("begin_transaction"), BeginSql(tm.depth),
                            tm.depth + 1, exec)
         IN  /\ tm' = r.tm
             /\ last' = r.rec
    /\ UNCHANGED <<is_test_transaction, qbVars, st>>

\* TransactionManager::commit_transaction
commit_transaction ==
    /\ \E exec \in ExecResults :
         IF NoTransaction(tm) THEN
             /\ last' = [Called("commit_transaction") EXCEPT
                            !.outcome = "err", !.err = NotInTransaction]
             /\ tm' = tm
         ELSE
             LET r == TxControl(Called("commit_transaction"), CommitSql(tm.depth),
                                tm.depth - 1, exec)
             IN  /\ tm' = r.tm
                 /\ last' = r.rec
    /\ UNCHANGED <<is_test_transaction, qbVars, st>>

\* TransactionManager::rollback_transaction
rollback_transaction ==
    /\ \E exec \in ExecResults :
         IF NoTransaction(tm) THEN
             /\ last' = [Called("rollback_transaction") EXCEPT
                            !.outcome = "err", !.err = NotInTransaction]
             /\ tm' = tm
         ELSE
             LET r == TxControl(Called("rollback_transaction"), RollbackSql(tm.depth),
                                tm.depth - 1, exec)
             IN  /\ tm' = r.tm
                 /\ last' = r.rec
    /\ UNCHANGED <<is_test_transaction, qbVars, st>>

\* begin_test_transaction, with the defect of setting the flag before beginning
begin_test_transaction_FlagFirst ==
    /\ \E exec \in ExecResults :
         IF ~NoTransaction(tm) THEN
             /\ last' = [Called("begin_test_transaction") EXCEPT !.outcome = "panic"]
             /\ UNCHANGED <<tm, is_test_transaction>>
         ELSE
             LET r == TxControl(Called("begin_test_transaction"), BeginSql(tm.depth),
                                tm.depth + 1, exec)
             IN  /\ tm' = r.tm
                 /\ last' = r.rec
                 /\ is_test_transaction' = TRUE
    /\ UNCHANGED <<qbVars, st>>

\* Connection::begin_test_transaction: panic unless the status is valid with
\* depth None; begin_transaction(self)?; then is_test_transaction = true.
begin_test_transaction ==
    /\ \E exec \in ExecResults :
         IF ~NoTransaction(tm) THEN
             /\ last' = [Called("begin_test_transaction") EXCEPT !.outcome = "panic"]
             /\ UNCHANGED <<tm, is_test_transaction>>
         ELSE
             LET r == TxControl(Called("begin_test_transaction"), BeginSql(tm.depth),
                                tm.depth + 1, exec)
             IN  /\ tm' = r.tm
                 /\ last' = r.rec
                 /\ is_test_transaction' =
                        IF r.rec.outcome = "ok" THEN TRUE ELSE is_test_transaction
    /\ UNCHANGED <<qbVars, st>>

\* R2D2Connection::is_broken, called in the current state
IsBroken ==
    /\ \E attr \in AttrResults :
         last' = [Called("is_broken") EXCEPT
                    !.outcome = "ok", !.attr = attr,
                    !.result = is_broken(tm, attr, is_test_transaction)]
    /\ UNCHANGED <<tm, is_test_transaction, qbVars, st>>

\* SimpleConnection::batch_execute: raw.execute(query, &[]).map_err(ErrorHelper::from)?
batch_execute ==
    /\ \E exec \in ExecResults :
         last' = IF exec = "ok"
                 THEN [Called("batch_execute") EXCEPT
                         !.outcome = "ok", !.stmts = <<[sql |-> "query", n |-> 0]>>]
                 ELSE [Called("batch_execute") EXCEPT
                         !.outcome = "err", !.native = exec,
                         !.err = From_ErrorHelper(exec),
                         !.stmts = <<[sql |-> "query", n |-> 0]>>]
    /\ UNCHANGED <<tm, is_test_transaction, qbVars, st>>


(***************************************************************************)
(* Query fragments.  A fragment is what diesel hands the connection: its   *)
(* walk is the sequence of builder calls to_sql makes, its values are the  *)
(* values collect_binds collects, one per push_bind_param of the walk.     *)
(***************************************************************************)
RECURSIVE Walk(_, _)
\* The builder after the calls of a walk, in order.
Walk(b, walk) ==
    IF walk = << >> THEN b
    ELSE LET c == Head(walk)
             b1 == CASE c.call = "push_sql" -> push_sql(b, c.arg)
                     [] c.call = "push_identifier" -> push_identifier(b, c.arg)
                     [] c.call = "push_bind_param" -> push_bind_param(b)
         IN  Walk(b1, Tail(walk))

\* let mut qb = OciQueryBuilder::default(); source.to_sql(&mut qb, &Oracle)?; qb.finish()
to_sql(fragment) == finish(Walk(OciQueryBuilder_new, fragment.walk))

\* The name the bind collector gives the k-th collected value (from 0).
BindName(k) == <<"i", "n">> \o Dec(k)

\* OracleBindCollector.binds after collect_binds: (name, value) in collection order.
collect_binds(fragment) ==
    [k \in 1..Len(fragment.values) |->
        [name |-> BindName(k - 1), value |-> fragment.values[k]]]

CallSql(text) == [call |-> "push_sql", arg |-> text]
CallIdentifier(name) == [call |-> "push_identifier", arg |-> name]
CallBind == [call |-> "push_bind_param", arg |-> << >>]

\* The error a fragment's own to_sql, is_safe_to_cache_prepared or collect_binds
\* returns when it fails: a diesel error that did not come from the driver.
FragmentError == [kind |-> "QueryBuilderError", detail |-> "fragment"]

\* The record of a statement operation that has not run.
NoStatement ==
    [op |-> "none", pc |-> "idle", records |-> << >>, calls |-> << >>,
     outcome |-> "none", err |-> NoError, native |-> "none", count |-> 0,
     frag |-> [walk |-> << >>, values |-> << >>, safe_to_cache |-> TRUE],
     shape |-> "none", metadata |-> << >>, bind_count |-> 0,
     debug |-> TRUE, chrono |-> TRUE,
     panic |-> "none", lists |-> << >>, rows |-> << >>, taken |-> 0]

(***************************************************************************)
(* batch_insert (connection/mod.rs 608-663).                               *)
(***************************************************************************)
\* The records of a batch: single-record insert statements over one table.
RecordFragments ==
    { [walk |-> <<CallSql(<<"x", "=">>), CallBind>>, values |-> <<1>>],
      [walk |-> <<CallSql(<<"x", "=">>), CallBind>>, values |-> <<2>>],
      [walk |-> <<CallIdentifier(<<"u", " ", "n">>), CallBind, CallBind>>,
       values |-> <<3, 4>>] }

RecordLists == UNION {[1..n -> RecordFragments] : n \in 0..MaxRecords}

\* Where a batch insert of the given records can fail: nowhere, in the first
\* record's to_sql, in building the batch, in the i-th record's collect_binds or
\* append_row_named, or in the batch execute.
BatchFailPoints(records) ==
    IF records = << >> THEN {[at |-> "none", i |-> 0]}
    ELSE {[at |-> a, i |-> 0] : a \in {"none", "to_sql", "build", "execute"}}
         \cup {[at |-> a, i |-> i] : a \in {"collect_binds", "append_row_named"},
                                     i \in 1..Len(records)}

\* The driver calls of bind_params_to_batch for records[from..upto], the last of
\* them failing if fail says so.
RECURSIVE AppendCalls(_, _, _, _, _)
AppendCalls(records, from, upto, fail, e) ==
    IF from > upto THEN << >>
    ELSE IF fail.at = "collect_binds" /\ fail.i = from THEN << >>
    ELSE IF fail.at = "append_row_named" /\ fail.i = from THEN
        <<[call |-> "append_row_named", binds |-> collect_binds(records[from]),
           res |-> e]>>
    ELSE <<[call |-> "append_row_named", binds |-> collect_binds(records[from]),
            res |-> "ok"]>>
         \o AppendCalls(records, from + 1, upto, fail, e)

BatchDone(records, calls, outcome, err, native, count) ==
    [NoStatement EXCEPT !.op = "batch_insert", !.pc = "done", !.records = records,
                        !.calls = calls, !.outcome = outcome, !.err = err,
                        !.native = native, !.count = count]

\* batch_insert, with the defect of never appending the first record
BatchInsert_FirstRecordLost(records, fail, e) ==
    LET n == Len(records)
        build == [call |-> "batch", sql |-> to_sql(records[1]), size |-> n,
                  res |-> IF fail.at = "build" THEN e ELSE "ok"]
        appends == AppendCalls(records, 2, n, fail, e)
        execute == [call |-> "execute", res |-> IF fail.at = "execute" THEN e ELSE "ok"]
    IN  IF n = 0 THEN BatchDone(records, << >>, "ok", NoError, "none", 0)
        ELSE IF fail.at = "to_sql" THEN
            BatchDone(records, << >>, "err", FragmentError, "none", 0)
        ELSE IF fail.at = "build" THEN
            BatchDone(records, <<build>>, "err", From_ErrorHelper(e), e, 0)
        ELSE IF fail.at = "collect_binds" /\ fail.i > 1 THEN
            BatchDone(records, <<build>> \o appends, "err", FragmentError, "none", 0)
        ELSE IF fail.at = "append_row_named" /\ fail.i > 1 THEN
            BatchDone(records, <<build>> \o appends, "err", From_ErrorHelper(e), e, 0)
        ELSE IF fail.at = "execute" THEN
            BatchDone(records, <<build>> \o appends \o <<execute>>, "err",
                      From_ErrorHelper(e), e, 0)
        ELSE BatchDone(records, <<build>> \o appends \o <<execute>>, "ok",
                       NoError, "none", n)

\* batch_insert: record_count = len; nothing for no record; else render the first
\* record, build the batch sized record_count, bind_params_to_batch for the first
\* record and then for each remaining one, execute, Ok(record_count); every ?
\* returns the first error.
BatchInsert(records, fail, e) ==
    LET n == Len(records)
        build == [call |-> "batch", sql |-> to_sql(records[1]), size |-> n,
                  res |-> IF fail.at = "build" THEN e ELSE "ok"]
        appends == AppendCalls(records, 1, n, fail, e)
        execute == [call |-> "execute", res |-> IF fail.at = "execute" THEN e ELSE "ok"]
    IN  IF n = 0 THEN BatchDone(records, << >>, "ok", NoError, "none", 0)
        ELSE IF fail.at = "to_sql" THEN
            BatchDone(records, << >>, "err", FragmentError, "none", 0)
        ELSE IF fail.at = "build" THEN
            BatchDone(records, <<build>>, "err", From_ErrorHelper(e), e, 0)
        ELSE IF fail.at = "collect_binds" THEN
            BatchDone(records, <<build>> \o appends, "err", FragmentError, "none", 0)
        ELSE IF fail.at = "append_row_named" THEN
            BatchDone(records, <<build>> \o appends, "err", From_ErrorHelper(e), e, 0)
        ELSE IF fail.at = "execute" THEN
            BatchDone(records, <<build>> \o appends \o <<execute>>, "err",
                      From_ErrorHelper(e), e, 0)
        ELSE BatchDone(records, <<build>> \o appends \o <<execute>>, "ok",
                       NoError, "none", n)

\* The driver errors a failing call is given in the statement operations.
StatementErrors == {"OciError", "DpiError", "InvalidBindName", "BatchErrors"}

\* The caller has passed batch_insert an insert statement with these records.
BatchInsertCalled(records) ==
    [NoStatement EXCEPT !.op = "batch_insert", !.pc = "called", !.records = records]

batch_insert ==
    /\ st.op = "batch_insert"
    /\ st.pc = "called"
    /\ \E fail \in BatchFailPoints(st.records) :
         \E e \in IF fail.at \in {"build", "append_row_named", "execute"}
                  THEN StatementErrors ELSE {"none"} :
           st' = BatchInsert(st.records, fail, e)
    /\ UNCHANGED <<qbVars, connVars>>

(***************************************************************************)
(* load (connection/mod.rs 351-388), with_prepared_statement (411-431) and *)
(* load_from_is_returning (433-606).                                       *)
(***************************************************************************)
\* OciDataType: the logical kinds of a column.
Kinds ==
    {"Bool", "SmallInt", "Integer", "BigInt", "Float", "Double", "Text", "Binary",
     "Date", "Time", "Timestamp"}

\* The OracleType an OUT bind of a kind is declared with (456-466).
OutBindType(kind) ==
    CASE kind = "Bool" -> [t |-> "Number", p |-> 5, s |-> 0]
      [] kind = "SmallInt" -> [t |-> "Number", p |-> 5, s |-> 0]
      [] kind = "Integer" -> [t |-> "Number", p |-> 10, s |-> 0]
      [] kind = "BigInt" -> [t |-> "Number", p |-> 19, s |-> 0]
      [] kind = "Float" -> [t |-> "Number", p |-> 19, s |-> 0]
      [] kind = "Double" -> [t |-> "BinaryDouble", p |-> 0, s |-> 0]
      [] kind = "Text" -> [t |-> "NVarchar2", p |-> 2000000, s |-> 0]
      [] kind = "Binary" -> [t |-> "Raw", p |-> 2000000, s |-> 0]
      [] kind = "Date" -> [t |-> "Timestamp", p |-> 0, s |-> 0]
      [] kind = "Time" -> [t |-> "Timestamp", p |-> 0, s |-> 0]
      [] kind = "Timestamp" -> [t |-> "Timestamp", p |-> 0, s |-> 0]

\* The kinds the extraction match has an arm for: Date and Timestamp only with
\* the chrono feature, Time never (the rest is unimplemented!()).
Extractable(kind, chrono) ==
    \/ kind \in {"Bool", "SmallInt", "Integer", "BigInt", "Float", "Double", "Text",
                 "Binary"}
    \/ chrono /\ kind \in {"Date", "Timestamp"}

\* The Rust type returned_values is asked for, per kind (487-600).
ExtractType(kind) ==
    CASE kind = "Bool" -> "Option<i16>"
      [] kind = "SmallInt" -> "Option<i16>"
      [] kind = "Integer" -> "Option<i32>"
      [] kind = "BigInt" -> "Option<i64>"
      [] kind = "Float" -> "Option<f32>"
      [] kind = "Double" -> "Option<f64>"
      [] kind = "Text" -> "Option<String>"
      [] kind = "Binary" -> "Option<Vec<u8>>"
      [] kind = "Date" -> "Option<NaiveDate>"
      [] kind = "Timestamp" -> "Option<NaiveDateTime>"

\* The InnerValue variant a drained value is wrapped in, per kind (487-600).
InnerVariant(kind) ==
    CASE kind = "Bool" -> "SmallInt"
      [] kind = "SmallInt" -> "SmallInt"
      [] kind = "Integer" -> "Integer"
      [] kind = "BigInt" -> "BigInt"
      [] kind = "Float" -> "Float"
      [] kind = "Double" -> "Double"
      [] kind = "Text" -> "Text"
      [] kind = "Binary" -> "Binary"
      [] kind = "Date" -> "Date"
      [] kind = "Timestamp" -> "Timestamp"

\* format!("out{}", id), with the defect of numbering from 1
OutBindName_FromOne(id) == <<"o", "u", "t">> \o Dec(id + 1)

\* format!("out{}", id)
OutBindName(id) == <<"o", "u", "t">> \o Dec(id)

\* other_binds (450-470): per metadata entry, in order, ("out<id>", type).
OtherBinds(metadata) ==
    [j \in 1..Len(metadata) |->
        [name |-> OutBindName(j - 1), value |-> OutBindType(metadata[j][1])]]

\* stmt.bind_count() - binds.len() on usize: wraps where overflow is unchecked.
\* usize is narrowed to 30 bits, the widest power of two the checker's integers
\* leave room for; a wrapped difference still exceeds every metadata length.
ReturnCount(bind_count, nbinds) == (bind_count - nbinds) % 1073741824

\* v.map(|v| OracleValue { inner: InnerValue::<Variant>(v) })
WrapValue(v, kind) ==
    IF v = << >> THEN << >> ELSE <<[inner |-> InnerVariant(kind), v |-> v[1]]>>

\* The loop over one column's returned values, with the defect of pushing each
\* value at the front of its row
PushColumn_AtFront(data, values, kind) ==
    [i \in 1..Len(data) |->
        IF i <= Len(values) THEN <<WrapValue(values[i], kind)>> \o data[i]
        ELSE data[i]]

\* The loop over one column's returned values (enumerate; data[idx].push(..)),
\* for a list no longer than data.
PushColumn(data, values, kind) ==
    [i \in 1..Len(data) |->
        IF i <= Len(values) THEN Append(data[i], WrapValue(values[i], kind))
        ELSE data[i]]

\* OciRow::new_from_value and OciRow::new: a row owns its values and shares the
\* column information of its result set.
OciRow_new_from_value(values) == [values |-> values, column_infos |-> "none"]
OciRow_new(row, column_infos) == [values |-> row, column_infos |-> column_infos]

\* The values the driver holds for OUT bind out<j-1> after execution: len of
\* them, each distinct from every other of the statement, some of them null.
DriverValues(j, len) ==
    [i \in 1..len |-> IF (i + j) % 3 = 0 THEN << >> ELSE <<10 * j + i>>]

\* The fragments load is given.
LoadFragments ==
    { [walk |-> <<CallSql(<<"x", "=">>)>>, values |-> << >>, safe_to_cache |-> TRUE],
      [walk |-> <<CallSql(<<"x", "=">>), CallBind, CallIdentifier(<<"u", " ", "n">>),
                  CallBind>>,
       values |-> <<7, 8>>, safe_to_cache |-> FALSE] }

\* Row metadata of a RETURNING statement: per column Some(kind) or None.  Every
\* kind and None stand in every position, beside columns of the kinds Integer
\* and Text.
MetaEntries == {<<k>> : k \in Kinds} \cup {<< >>}
CommonEntries == {<<"Integer">>, <<"Text">>}
RowMetadata ==
    UNION {{m \in [1..n -> MetaEntries] :
              Cardinality({j \in 1..n : m[j] \notin CommonEntries}) <= 1}
           : n \in 0..MaxCols}

\* What the driver can report as stmt.bind_count() for a statement with i input
\* binds and m returned columns: their sum, one more, or (i > 0) one less than i.
BindCounts(i, m) == {i + m, i + m + 1} \cup (IF i > 0 THEN {i - 1} ELSE {})

HasChronoKind(metadata) ==
    \E j \in 1..Len(metadata) : metadata[j] \in {<<"Date">>, <<"Timestamp">>}

\* The caller has passed load a query: its fragment, what the driver makes of
\* the statement (a query, a RETURNING statement, neither), the row metadata of
\* its SQL type; the build has debug assertions and the chrono feature or not
\* (told apart only where they matter).
LoadCalled(frag, shape, metadata, bind_count, debug, chrono) ==
    [NoStatement EXCEPT !.op = "load", !.pc = "called", !.frag = frag,
                        !.shape = shape, !.metadata = metadata,
                        !.bind_count = bind_count, !.debug = debug,
                        !.chrono = chrono]

LoadCalls ==
    {LoadCalled(f, shape, << >>, Len(f.values), TRUE, TRUE) :
        f \in LoadFragments, shape \in {"query", "other"}}
    \cup UNION { UNION { UNION {
        {LoadCalled(f, "returning", m, b, d, c) :
            d \in (IF b = Len(f.values) + Len(m) THEN {TRUE} ELSE BOOLEAN),
            c \in (IF HasChronoKind(m) THEN BOOLEAN ELSE {TRUE})}
        : b \in BindCounts(Len(f.values), Len(m))}
        : m \in RowMetadata}
        : f \in LoadFragments}

\* with_prepared_statement up to the callback: the driver calls made and either
\* the error returned or the statement prepared.  fail is where it fails, if at
\* all.
Prepared(s, fail, e) ==
    LET statement == <<[call |-> "statement", sql |-> to_sql(s.frag), res |-> "ok"]>>
        exclude == IF s.frag.safe_to_cache THEN << >>
                   ELSE <<[call |-> "exclude_from_cache", res |-> "ok"]>>
        build == <<[call |-> "build", res |-> IF fail = "build" THEN e ELSE "ok"]>>
    IN  CASE fail = "to_sql" ->
               [s EXCEPT !.pc = "done", !.outcome = "err", !.err = FragmentError]
          [] fail = "is_safe_to_cache_prepared" ->
               [s EXCEPT !.pc = "done", !.outcome = "err", !.err = FragmentError]
          [] fail = "build" ->
               [s EXCEPT !.pc = "done", !.outcome = "err", !.native = e,
                         !.err = From_ErrorHelper(e),
                         !.calls = statement \o exclude \o build]
          [] fail = "collect_binds" ->
               [s EXCEPT !.pc = "done", !.outcome = "err", !.err = FragmentError,
                         !.calls = statement \o exclude \o build]
          [] OTHER ->
               [s EXCEPT !.pc = "prepared", !.calls = statement \o exclude \o build]

Panicked(s, why) == [s EXCEPT !.pc = "done", !.outcome = "panic", !.panic = why]

Failed(s, call, e) ==
    [s EXCEPT !.pc = "done", !.outcome = "err", !.native = e,
              !.err = From_ErrorHelper(e),
              !.calls = s.calls \o <<[call EXCEPT !.res = e]>>]

\* The result set of a query as the driver delivers it: per row the result of
\* fetching it.
ResultSet(env) == [i \in 1..env.rows |-> IF i = env.failrow THEN env.e ELSE "ok"]

\* The fetches collecting the first n rows of a result set makes, the n-th
\* having the given result.
Fetches(n, last_res) ==
    [i \in 1..n |-> [call |-> "fetch", res |-> IF i = n THEN last_res ELSE "ok"]]

RECURSIVE CollectRows_KeepPrefix(_, _, _, _)
\* The collection of the rows, with the defect of returning the rows fetched
\* before a failing one
CollectRows_KeepPrefix(results, i, acc, column_infos) ==
    IF i > Len(results) THEN
        [ok |-> TRUE, rows |-> acc, e |-> "none", fetches |-> Fetches(i, "end")]
    ELSE IF results[i] # "ok" THEN
        [ok |-> TRUE, rows |-> acc, e |-> "none", fetches |-> Fetches(i, results[i])]
    ELSE CollectRows_KeepPrefix(results, i + 1, Append(acc, OciRow_new(i, column_infos)),
                                column_infos)

RECURSIVE CollectRows(_, _, _, _)
\* result_set.map(|row| Ok(OciRow::new(row.map_err(ErrorHelper)?, column_infos.clone())))
\*           .collect::<Result<Vec<_>, _>>() from row i on (372-379): rows are
\* fetched until the set ends or a fetch fails; a failure drops what was
\* collected and is the result.
CollectRows(results, i, acc, column_infos) ==
    IF i > Len(results) THEN
        [ok |-> TRUE, rows |-> acc, e |-> "none", fetches |-> Fetches(i, "end")]
    ELSE IF results[i] # "ok" THEN
        [ok |-> FALSE, rows |-> << >>, e |-> results[i],
         fetches |-> Fetches(i, results[i])]
    ELSE CollectRows(results, i + 1, Append(acc, OciRow_new(i, column_infos)),
                     column_infos)

\* The query arm of load's callback (364-380): query_named with the collected
\* binds, one Rc of the column information, every row of the result set
\* collected, RowIter::new(rows).
LoadQuery(s, env) ==
    LET query == [call |-> "query_named", binds |-> collect_binds(s.frag),
                  res |-> "ok"]
        collected == CollectRows(ResultSet(env), 1, << >>, "Rc(column_info)")
        s1 == [s EXCEPT !.calls = s.calls \o <<query>> \o collected.fetches,
                        !.count = env.rows]
    IN  IF env.at = "query_named" THEN Failed(s, query, env.e)
        ELSE IF ~collected.ok THEN
            [s1 EXCEPT !.pc = "done", !.outcome = "err", !.native = collected.e,
                       !.err = From_ErrorHelper(collected.e)]
        ELSE [s1 EXCEPT !.pc = "done", !.outcome = "ok", !.rows = collected.rows]

RECURSIVE Drain(_, _, _, _)
\* The loop over the metadata (484-603) from column j on: per column the
\* returned_values call for its OUT bind and the pushes of its values.
Drain(s, data, j, env) ==
    IF j > Len(s.metadata) THEN
        [s EXCEPT !.pc = "done", !.outcome = "ok",
                  !.rows = [i \in 1..Len(data) |-> OciRow_new_from_value(data[i])]]
    ELSE
        LET kind == s.metadata[j][1]
            values == DriverValues(j, env.lens[j])
        IN  IF ~Extractable(kind, s.chrono) THEN Panicked(s, "not implemented")
            ELSE
                LET call == [call |-> "returned_values", name |-> OutBindName(j - 1),
                             type |-> ExtractType(kind), res |-> "ok"]
                    s1 == [s EXCEPT !.calls = s.calls \o <<call>>,
                                    !.lists = Append(s.lists, values)]
                IN  IF env.failcol = j THEN Failed(s, call, env.e)
                    ELSE IF Len(values) > Len(data) THEN
                        Panicked(s1, "index out of bounds")
                    ELSE Drain(s1, PushColumn(data, values, kind), j + 1, env)

\* load_from_is_returning (433-606).
LoadReturning(s, env) ==
    LET binds == collect_binds(s.frag)
        underflow == s.bind_count < Len(binds)
        return_count == ReturnCount(s.bind_count, Len(binds))
        execute == [call |-> "execute_named", binds |-> binds \o OtherBinds(s.metadata),
                    res |-> "ok"]
        row_count == [call |-> "row_count", res |-> "ok"]
    IN  IF s.debug /\ underflow THEN Panicked(s, "attempt to subtract with overflow")
        ELSE IF s.debug /\ Len(s.metadata) # return_count THEN
            Panicked(s, "assertion failed: metadata.len() == return_count")
        ELSE IF \E j \in 1..Len(s.metadata) : s.metadata[j] = << >> THEN
            Panicked(s, "Returning queries need to be typed")
        ELSE IF env.at = "execute_named" THEN Failed(s, execute, env.e)
        ELSE IF env.at = "row_count" THEN
            Failed([s EXCEPT !.calls = s.calls \o <<execute>>], row_count, env.e)
        ELSE
            Drain([s EXCEPT !.calls = s.calls \o <<execute, row_count>>,
                            !.count = env.rows],
                  [i \in 1..env.rows |-> << >>], 1, env)

\* What the driver does in the callback of a load: where a call fails (at, e),
\* the number of rows, the first row whose fetch fails, the length of each
\* column's list of returned values, the first column whose list is refused.
NoEnv ==
    [at |-> "none", e |-> "none", rows |-> 0, failrow |-> 0, lens |-> << >>,
     failcol |-> 0]

\* The lengths of a column's list for a statement that affected r rows: one
\* fewer, as many, one more.
ListLengths(r) == {r - 1, r, r + 1} \cap Nat

LoadEnvs(s) ==
    CASE s.shape = "query" ->
           {[NoEnv EXCEPT !.at = "query_named", !.e = e] : e \in StatementErrors}
           \cup {[NoEnv EXCEPT !.rows = r] : r \in 0..MaxRows}
           \cup UNION {{[NoEnv EXCEPT !.rows = r, !.failrow = f, !.e = e] :
                           f \in 1..r, e \in StatementErrors}
                        : r \in 1..MaxRows}
      [] s.shape = "returning" ->
           {[NoEnv EXCEPT !.at = a, !.e = e] :
               a \in {"execute_named", "row_count"}, e \in StatementErrors}
           \cup UNION {
               {[NoEnv EXCEPT !.rows = r, !.lens = l] :
                   l \in [1..Len(s.metadata) -> ListLengths(r)]}
               \cup {[NoEnv EXCEPT !.rows = r, !.lens = l, !.failcol = j, !.e = e] :
                       l \in [1..Len(s.metadata) -> {r}], j \in 1..Len(s.metadata),
                       e \in {"InvalidTypeConversion", "InvalidBindName"}}
               : r \in 0..MaxRows}
      [] OTHER -> {NoEnv}

\* with_prepared_statement: render, statement, exclude_from_cache unless safe to
\* cache, build, collect_binds; each ? returns the error.
with_prepared_statement ==
    /\ st.op = "load"
    /\ st.pc = "called"
    /\ \E fail \in {"none", "to_sql", "is_safe_to_cache_prepared", "build",
                     "collect_binds"} :
         \E e \in IF fail = "build" THEN StatementErrors ELSE {"none"} :
           st' = Prepared(st, fail, e)
    /\ UNCHANGED <<qbVars, connVars>>

\* The callback load passes to with_prepared_statement: the query arm, the
\* RETURNING arm, or unreachable!().
load ==
    /\ st.op = "load"
    /\ st.pc = "prepared"
    /\ \E env \in LoadEnvs(st) :
         st' = CASE st.shape = "query" -> LoadQuery(st, env)
                 [] st.shape = "returning" -> LoadReturning(st, env)
                 [] OTHER -> Panicked(st, "unreachable")
    /\ UNCHANGED <<qbVars, connVars>>

\* ReturningClauseFromSqlHelper::from_sql (397-407): val.oracle_type()? and then
\* T::from_sql(oracle_value).unwrap().
from_sql ==
    /\ st.op = "from_sql"
    /\ st.pc = "called"
    /\ \E res \in {"ok", "oracle_type", "T::from_sql"} :
         st' = CASE res = "ok" -> [st EXCEPT !.pc = "done", !.outcome = "ok"]
                 [] res = "oracle_type" ->
                      [st EXCEPT !.pc = "done", !.outcome = "err",
                                 !.native = "InvalidTypeConversion"]
                 [] OTHER -> Panicked(st, "called Result::unwrap() on an Err value")
    /\ UNCHANGED <<qbVars, connVars>>

\* RowIter::next on the sequence load returned: the next row of the rows held
\* in memory, as long as there is one.
RowIter_next ==
    /\ st.op = "load"
    /\ st.pc = "done"
    /\ st.outcome = "ok"
    /\ st.taken < Len(st.rows)
    /\ st' = [st EXCEPT !.taken = st.taken + 1]
    /\ UNCHANGED <<qbVars, connVars>>

FromSqlCalled == [NoStatement EXCEPT !.op = "from_sql", !.pc = "called"]

(***************************************************************************)
(* execute_returning_count (connection/mod.rs 295-328).                    *)
(***************************************************************************)
\* The fragments execute_returning_count is given: with no, one and two binds,
\* each safe to cache or not.
ExecFragments ==
    {[walk |-> w.walk, values |-> w.values, safe_to_cache |-> safe] :
        w \in {[walk |-> <<CallSql(<<"x", "=">>)>>, values |-> << >>],
                [walk |-> <<CallSql(<<"x", "=">>), CallBind>>, values |-> <<5>>],
                [walk |-> <<CallIdentifier(<<"u", " ", "n">>), CallBind, CallBind>>,
                 values |-> <<7, 8>>]},
        safe \in BOOLEAN}

\* The caller has passed execute_returning_count a fragment; the driver takes
\* its statement for a query or not.
ExecuteCalled(frag, is_query) ==
    [NoStatement EXCEPT !.op = "execute_returning_count", !.pc = "called",
                        !.frag = frag,
                        !.shape = IF is_query THEN "query" ELSE "dml"]

\* row_count() as usize.  usize is narrowed to 30 bits, the widest power of two
\* the checker's integers leave room for.
AsUsize(n) == n % 1073741824

\* Where execute_returning_count can fail, in the order of its steps.
ExecFailPoints ==
    {"none", "to_sql", "is_safe_to_cache_prepared", "build", "collect_binds", "run",
     "row_count"}

\* execute_returning_count, with the defect of excluding from the cache the
\* statements that are safe to cache
ExecuteReturningCount_CacheInverted(s, fail, e, n) ==
    LET statement == <<[call |-> "statement", sql |-> to_sql(s.frag), res |-> "ok"]>>
        exclude == IF ~s.frag.safe_to_cache THEN << >>
                   ELSE <<[call |-> "exclude_from_cache", res |-> "ok"]>>
        build == <<[call |-> "build", res |-> "ok"]>>
        run == <<[call |-> IF s.shape = "query" THEN "query_named" ELSE "execute_named",
                  binds |-> collect_binds(s.frag), res |-> "ok"]>>
        row_count == [call |-> "row_count", res |-> "ok", value |-> n]
        prepared == [s EXCEPT !.calls = statement \o exclude \o build]
        ran == [s EXCEPT !.calls = statement \o exclude \o build \o run]
    IN  CASE fail = "to_sql" ->
               [s EXCEPT !.pc = "done", !.outcome = "err", !.err = FragmentError]
          [] fail = "is_safe_to_cache_prepared" ->
               [s EXCEPT !.pc = "done", !.outcome = "err", !.err = FragmentError,
                         !.calls = statement]
          [] fail = "build" ->
               Failed([s EXCEPT !.calls = statement \o exclude], build[1], e)
          [] fail = "collect_binds" ->
               [prepared EXCEPT !.pc = "done", !.outcome = "err", !.err = FragmentError]
          [] fail = "run" -> Failed(prepared, run[1], e)
          [] fail = "row_count" -> Failed(ran, row_count, e)
          [] OTHER ->
               [ran EXCEPT !.pc = "done", !.outcome = "ok",
                           !.calls = ran.calls \o <<row_count>>,
                           !.count = AsUsize(n)]

\* execute_returning_count: render with a default builder, statement(sql), ask
\* the fragment whether it is safe to cache and exclude_from_cache if not, build,
\* collect the binds, query_named for a query and execute_named otherwise,
\* row_count; each ? returns the error.
ExecuteReturningCount(s, fail, e, n) ==
    LET statement == <<[call |-> "statement", sql |-> to_sql(s.frag), res |-> "ok"]>>
        exclude == IF s.frag.safe_to_cache THEN << >>
                   ELSE <<[call |-> "exclude_from_cache", res |-> "ok"]>>
        build == <<[call |-> "build", res |-> "ok"]>>
        run == <<[call |-> IF s.shape = "query" THEN "query_named" ELSE "execute_named",
                  binds |-> collect_binds(s.frag), res |-> "ok"]>>
        row_count == [call |-> "row_count", res |-> "ok", value |-> n]
        prepared == [s EXCEPT !.calls = statement \o exclude \o build]
        ran == [s EXCEPT !.calls = statement \o exclude \o build \o run]
    IN  CASE fail = "to_sql" ->
               [s EXCEPT !.pc = "done", !.outcome = "err", !.err = FragmentError]
          [] fail = "is_safe_to_cache_prepared" ->
               [s EXCEPT !.pc = "done", !.outcome = "err", !.err = FragmentError,
                         !.calls = statement]
          [] fail = "build" ->
               Failed([s EXCEPT !.calls = statement \o exclude], build[1], e)
          [] fail = "collect_binds" ->
               [prepared EXCEPT !.pc = "done", !.outcome = "err", !.err = FragmentError]
          [] fail = "run" -> Failed(prepared, run[1], e)
          [] fail = "row_count" -> Failed(ran, row_count, e)
          [] OTHER ->
               [ran EXCEPT !.pc = "done", !.outcome = "ok",
                           !.calls = ran.calls \o <<row_count>>,
                           !.count = AsUsize(n)]

execute_returning_count ==
    /\ st.op = "execute_returning_count"
    /\ st.pc = "called"
    /\ \E fail \in ExecFailPoints :
         \E e \in IF fail \in {"build", "run", "row_count"}
                  THEN StatementErrors ELSE {"none"} :
           \E n \in IF fail = "none" THEN 0..MaxRows ELSE {0} :
             st' = ExecuteReturningCount(st, fail, e, n)
    /\ UNCHANGED <<qbVars, connVars>>

InitStatement == st = NoStatement

InitConn ==
    /\ tm = OCITransactionManager_new
    /\ is_test_transaction = FALSE
    /\ last = NoOp

Init == InitQB /\ InitConn /\ InitStatement

\* The connection: transaction control, health check, plain execution.
Next ==
    \/ begin_transaction
    \/ commit_transaction
    \/ rollback_transaction
    \/ begin_test_transaction
    \/ IsBroken
    \/ batch_execute

Spec == Init /\ [][Next]_vars

\* The query builder on its own.
SpecQB == Init /\ [][NextQB]_vars

\* Batch inserts: one call of batch_insert on each list of records.
InitBatch ==
    /\ InitQB
    /\ InitConn
    /\ \E records \in RecordLists : st = BatchInsertCalled(records)

NextBatch == batch_insert

SpecBatch == InitBatch /\ [][NextBatch]_vars

\* Loads: one call of load on each query, and the decoding of a returned value.
InitLoad ==
    /\ InitQB
    /\ InitConn
    /\ st \in LoadCalls \cup {FromSqlCalled}

NextLoad == with_prepared_statement \/ load \/ RowIter_next \/ from_sql

SpecLoad == InitLoad /\ [][NextLoad]_vars

\* Executions: one call of execute_returning_count on each fragment.
InitExec ==
    /\ InitQB
    /\ InitConn
    /\ \E frag \in ExecFragments, is_query \in BOOLEAN : st = ExecuteCalled(frag, is_query)

NextExec == execute_returning_count

SpecExec == InitExec /\ [][NextExec]_vars

(***************************************************************************)
(* Properties of the query builder (under SpecQB).                         *)
(***************************************************************************)
BindCalls == SelectSeq(qb_log, LAMBDA e : e.op = "push_bind_param")

\* The decimal numerals of 0..12, written out.
Numeral ==
    << <<"0">>, <<"1">>, <<"2">>, <<"3">>, <<"4">>, <<"5">>, <<"6">>, <<"7">>,
       <<"8">>, <<"9">>, <<"1", "0">>, <<"1", "1">>, <<"1", "2">> >>

\* C1: on every builder, the k-th push_bind_param call (from 0) appends exactly
\* :in<k> after the text already there, so the placeholders are in0, in1, ... in
\* call order without gap or repeat whatever push_sql / push_identifier calls
\* come between; those calls leave the counter alone; and a fresh builder (the
\* one every rendered statement starts from) gives :in0 first.
C1_BindNamesInCallOrder ==
    /\ \A k \in 1..Len(BindCalls) :
          BindCalls[k].text = <<":", "i", "n">> \o Numeral[k]
    /\ \A i \in 1..Len(qb_log) :
          /\ qb_log[i].kept
          /\ qb_log[i].op # "push_bind_param" =>
                qb_log[i].idx = (IF i = 1 THEN 0 ELSE qb_log[i - 1].idx)
    /\ qb.bind_idx = Len(BindCalls)
    /\ finish(qb) = Concat([i \in 1..Len(qb_log) |-> qb_log[i].text])

\* C1 witness: eleven placeholders, the last one :in10, with a push_identifier
\* and a push_sql between placeholders.
C1_Witness ==
    /\ Len(BindCalls) = 11
    /\ qb_log[Len(qb_log)].text = <<":", "i", "n", "1", "0">>
    /\ \E i, j \in 2..(Len(qb_log) - 1) :
          /\ qb_log[i].op = "push_identifier"
          /\ qb_log[j].op = "push_sql"
          /\ qb_log[1].op = "push_bind_param"

(***************************************************************************)
(* Properties of the connection's transaction state (under Spec).          *)
(***************************************************************************)
TxOps == {"begin_transaction", "commit_transaction", "rollback_transaction"}

\* C2 as stated: is_broken is true exactly when the state is Error, or the state
\* is Open and the driver reports a transaction in progress and the transaction
\* is not a test transaction.
C2_AsStated ==
    last.op = "is_broken" =>
        (last.result <=>
            \/ InError(tm)
            \/ /\ Open(tm)
               /\ last.attr = "in_progress"
               /\ ~is_test_transaction)

\* C2 amended: is_broken is true exactly when the state is Error, or the test
\* flag is not set and either the state is Open or the driver does not answer
\* "no transaction in progress" (it reports one, or the attribute query fails).
C2_BrokenIffErrorOrEitherReport ==
    last.op = "is_broken" =>
        (last.result <=>
            IF tm.status = "InError" THEN TRUE
            ELSE IF is_test_transaction THEN FALSE
            ELSE tm.depth > 0 \/ last.attr \in {"in_progress", "attr_error"})

\* C2 witness: a non-test open transaction the driver reports as not in progress
\* is broken all the same.
C2_Witness ==
    /\ last.op = "is_broken"
    /\ Open(tm)
    /\ ~is_test_transaction
    /\ last.attr = "not_in_progress"
    /\ last.result

\* C3: is_broken is true in the Error state, test flag or not; false for an open
\* test transaction whatever the driver reports, a failed attribute query
\* included; true for an open non-test transaction the driver reports in
\* progress.
C3_BrokenCases ==
    last.op = "is_broken" =>
        /\ InError(tm) => last.result
        /\ (Open(tm) /\ is_test_transaction) => ~last.result
        /\ (Open(tm) /\ ~is_test_transaction /\ last.attr = "in_progress") => last.result

\* C3 witness: an open test transaction, the attribute query failing, not broken.
C3_Witness ==
    /\ last.op = "is_broken"
    /\ Open(tm)
    /\ tm.depth = 1
    /\ is_test_transaction
    /\ last.attr = "attr_error"
    /\ ~last.result

\* C4: begin_test_transaction called with a transaction open or the manager in
\* error panics before any statement is issued and leaves depth and test flag as
\* they were; called from NoTransaction it issues exactly one BEGIN, the flag is
\* set when that begin succeeded, and when it failed the error is returned and
\* the flag is what it was.
C4_BeginTestTransaction ==
    last.op = "begin_test_transaction" =>
        IF last.pre_tm.status = "InError" \/ last.pre_tm.depth > 0
        THEN /\ last.outcome = "panic"
             /\ last.stmts = << >>
             /\ tm = last.pre_tm
             /\ is_test_transaction = last.pre_test
        ELSE /\ Len(last.stmts) = 1
             /\ last.stmts[1].sql = "BEGIN"
             /\ last.outcome \in {"ok", "err"}
             /\ last.outcome = "ok" => (is_test_transaction /\ tm.depth = 1)
             /\ last.outcome = "err" =>
                   /\ last.err # NoError
                   /\ is_test_transaction = last.pre_test
             /\ (is_test_transaction /\ ~last.pre_test) => last.outcome = "ok"

\* C4 witness: a begin_test_transaction from NoTransaction whose BEGIN failed:
\* the error is returned and the flag is still false.
C4_Witness ==
    /\ last.op = "begin_test_transaction"
    /\ NoTransaction(last.pre_tm)
    /\ last.outcome = "err"
    /\ last.stmts = <<[sql |-> "BEGIN", n |-> 0]>>
    /\ ~is_test_transaction

\* C5: a failed transaction-control statement puts the manager in Error; Error is
\* never left; in Error every begin, commit and rollback reports an error without
\* issuing a statement; and is_broken is true.
C5_ErrorIsTerminal ==
    /\ []((last.op \in TxOps \cup {"begin_test_transaction"} /\ last.native # "none")
            => InError(tm))
    /\ [][InError(tm) => InError(tm')]_vars
    /\ []((last.op \in TxOps /\ InError(last.pre_tm)) =>
            (last.outcome = "err" /\ last.err # NoError /\ last.stmts = << >>))
    /\ []((last.op = "is_broken" /\ InError(tm)) => last.result)

\* C5 witness: with a test transaction open, a transaction-control statement has
\* failed, and a later rollback reports the error.
C5_Witness ==
    /\ InError(tm)
    /\ is_test_transaction
    /\ last.op = "rollback_transaction"
    /\ InError(last.pre_tm)
    /\ last.outcome = "err"

(***************************************************************************)
(* The error taxonomy (under Spec).                                        *)
(***************************************************************************)
Taxonomy ==
    {"ConnectionError", "QueryBuilderError", "DeserializationError",
     "SerializationError", "NotFound", "BatchError"}

\* The assignments C10 and its amendment share.
TaxonomyCommon(e, err) ==
    /\ err.kind \in Taxonomy
    /\ e \in {"NullValue", "InvalidColumnIndex", "InvalidColumnName", "OutOfRange",
              "InvalidTypeConversion"} => err.kind = "DeserializationError"
    /\ e = "InvalidColumnIndex" => err.detail = "UnexpectedEndOfRow"
    /\ e \in {"InvalidBindIndex", "InvalidBindName", "InvalidOperation", "OciError",
              "DpiError"} => err.kind = "QueryBuilderError"
    /\ e = "NoDataFound" => err.kind = "NotFound"

\* C10 as stated: each driver error becomes one kind of the taxonomy, a parse
\* error a deserialization failure and a batch-errors result the BatchError kind.
C10_AsStated ==
    last.native # "none" =>
        /\ TaxonomyCommon(last.native, last.err)
        /\ last.native = "ParseError" => last.err.kind = "DeserializationError"
        /\ last.native = "BatchErrors" => last.err.kind = "BatchError"

\* C10 amended: each driver error becomes one kind of the taxonomy, with a parse
\* error a SerializationError and a batch-errors result a QueryBuilderError
\* carrying the text "Batch error"; the failing statement is issued once.
C10_ErrorTranslation ==
    last.native # "none" =>
        /\ TaxonomyCommon(last.native, last.err)
        /\ last.native = "ParseError" => last.err.kind = "SerializationError"
        /\ last.native = "BatchErrors" =>
              (last.err.kind = "QueryBuilderError" /\ last.err.detail = "Batch error")
        /\ last.outcome = "err"
        /\ Len(last.stmts) = 1

\* C10 witness: batch_execute has translated a batch-errors result of the driver.
C10_Witness ==
    /\ last.op = "batch_execute"
    /\ last.native = "BatchErrors"
    /\ last.err = [kind |-> "QueryBuilderError", detail |-> "Batch error"]

(***************************************************************************)
(* Batch insert (under SpecBatch).                                         *)
(***************************************************************************)
CallsNamed(name) == SelectSeq(st.calls, LAMBDA c : c.call = name)

\* C6: batch_insert of no record returns 0 and calls the driver not at all; of
\* n > 0 records it builds one batch sized n from the first record's SQL, then
\* appends the records' binds once each in record order, then executes once, and
\* returns n; a failing build, append or execute is returned as that error, and
\* nothing is called after a failure, so a failed append means no execute.
C6_BatchInsert ==
    (st.op = "batch_insert" /\ st.pc = "done") =>
        LET n == Len(st.records)
            nCalls == Len(st.calls)
        IN  /\ n = 0 => (st.outcome = "ok" /\ st.count = 0 /\ st.calls = << >>)
            /\ (n > 0 /\ st.outcome = "ok") =>
                  /\ st.count = n
                  /\ nCalls = n + 2
                  /\ st.calls[1] = [call |-> "batch", sql |-> to_sql(st.records[1]),
                                    size |-> n, res |-> "ok"]
                  /\ \A i \in 1..n :
                        st.calls[i + 1] =
                            [call |-> "append_row_named",
                             binds |-> collect_binds(st.records[i]), res |-> "ok"]
                  /\ st.calls[n + 2] = [call |-> "execute", res |-> "ok"]
            /\ st.outcome \in {"ok", "err"}
            /\ st.outcome = "err" => st.err # NoError
            /\ Len(CallsNamed("batch")) <= 1
            /\ Len(CallsNamed("execute")) <= 1
            /\ \A i \in 1..nCalls :
                  /\ st.calls[i].res # "ok" =>
                        /\ i = nCalls
                        /\ st.outcome = "err"
                        /\ st.native = st.calls[i].res
                        /\ st.err = From_ErrorHelper(st.calls[i].res)
                  /\ st.calls[i].call = "execute" =>
                        /\ i = n + 2
                        /\ \A j \in 2..(n + 1) :
                              /\ st.calls[j].call = "append_row_named"
                              /\ st.calls[j].res = "ok"
                              /\ st.calls[j].binds = collect_binds(st.records[j - 1])

\* C6 witness: three records, the second with other SQL than the first, all
\* appended and executed.
C6_Witness ==
    /\ st.op = "batch_insert"
    /\ st.pc = "done"
    /\ Len(st.records) = 3
    /\ to_sql(st.records[2]) # to_sql(st.records[1])
    /\ st.outcome = "ok"
    /\ st.count = 3
    /\ Len(st.calls) = 5

(***************************************************************************)
(* Properties of load (under SpecLoad).                                    *)
(***************************************************************************)
ReturningDone == st.op = "load" /\ st.shape = "returning" /\ st.pc = "done"

\* C7: on the RETURNING path with I collected input binds and N columns of row
\* metadata, execute is called at most once and never beside a query call, and
\* its bind list is the I input binds in collection order followed by exactly N
\* OUT binds named out0 .. out(N-1) in column order; a build that checks debug
\* assertions reaches execute only with N = bind_count - I; with 2 input binds
\* and 1 integer column where that equality holds, the list has three binds, the
\* last one out0.
C7_ReturningBinds ==
    ReturningDone =>
        LET I == Len(st.frag.values)
            N == Len(st.metadata)
            executes == CallsNamed("execute_named")
        IN  /\ Len(executes) <= 1
            /\ CallsNamed("query_named") = << >>
            /\ st.outcome = "ok" => Len(executes) = 1
            /\ executes # << >> =>
                  LET binds == executes[1].binds
                  IN  /\ Len(binds) = I + N
                      /\ \A k \in 1..I :
                            /\ binds[k].name = <<"i", "n">> \o Numeral[k]
                            /\ binds[k].value = st.frag.values[k]
                      /\ \A k \in 1..N :
                            binds[I + k].name = <<"o", "u", "t">> \o Numeral[k]
                      /\ st.debug => N = st.bind_count - I
                      /\ (I = 2 /\ st.metadata = << <<"Integer">> >>
                            /\ st.bind_count - 2 = 1) =>
                            /\ Len(binds) = 3
                            /\ binds[3].name = <<"o", "u", "t", "0">>

\* C7 witness: a RETURNING load with two input binds and one integer column, the
\* driver counting three binds, has executed and returned rows.
C7_Witness ==
    /\ ReturningDone
    /\ Len(st.frag.values) = 2
    /\ st.metadata = << <<"Integer">> >>
    /\ st.bind_count = 3
    /\ st.outcome = "ok"
    /\ Len(CallsNamed("execute_named")) = 1
    /\ st.count = 2

\* The payload of a row's value: null, or the driver's value.
Payload(x) == IF x = << >> THEN << >> ELSE <<x[1].v>>

\* The rows are the per-column lists transposed: as many rows as the statement
\* affected, in each as many values as columns, the j-th of row i being the i-th
\* the driver returned for the j-th OUT bind.
RowsTransposeLists ==
    /\ Len(st.rows) = st.count
    /\ \A i \in 1..st.count :
          /\ Len(st.rows[i].values) = Len(st.metadata)
          /\ \A j \in 1..Len(st.metadata) :
                /\ i <= Len(st.lists[j])
                /\ Payload(st.rows[i].values[j]) = st.lists[j][i]

\* C8 as stated: whatever the lengths of the lists the driver returns, the rows
\* load returns after a RETURNING statement are the lists transposed.
C8_AsStated == (ReturningDone /\ st.outcome = "ok") => RowsTransposeLists

\* The statement was executed and its rows counted, and every column's list was
\* returned, with exactly as many values as rows.
ListsMatchRowCount ==
    /\ CallsNamed("row_count") = <<[call |-> "row_count", res |-> "ok"]>>
    /\ Len(st.lists) = Len(st.metadata)
    /\ \A j \in 1..Len(st.lists) : Len(st.lists[j]) = st.count

\* C8: when the driver returns for every column exactly as many values as the
\* statement affected rows, load returns the lists transposed, for every row
\* count from 0; a returned list longer than the row count makes load panic, and
\* rows load returns are never longer than the number of columns.
C8_RowsTransposeLists ==
    ReturningDone =>
        /\ ListsMatchRowCount => (st.outcome = "ok" /\ RowsTransposeLists)
        /\ (\E j \in 1..Len(st.lists) : Len(st.lists[j]) > st.count) =>
              (st.outcome = "panic" /\ st.panic = "index out of bounds")
        /\ st.outcome = "ok" =>
              /\ Len(st.rows) = st.count
              /\ \A i \in 1..st.count : Len(st.rows[i].values) <= Len(st.metadata)

\* C8 witness: two rows of two columns returned, with a null and a value in each.
C8_Witness ==
    /\ ReturningDone
    /\ st.outcome = "ok"
    /\ st.count = 2
    /\ Len(st.metadata) = 2
    /\ ListsMatchRowCount
    /\ Len(st.rows) = 2
    /\ st.rows[1].values[2] = << >>
    /\ st.rows[1].values[1] # << >>
    /\ st.rows[2].values[1] = << >>
    /\ st.rows[2].values[2] # << >>

\* The driver reports as many binds as the statement has input binds and columns,
\* and no list of returned values is longer than the row count.
DriverAgrees ==
    /\ st.bind_count = Len(st.frag.values) + Len(st.metadata)
    /\ \A j \in 1..Len(st.lists) : Len(st.lists[j]) <= st.count

\* C9 as stated, for load: a load panics only for a RETURNING statement whose
\* row metadata lacks a column type or for a statement that is neither a query
\* nor a RETURNING statement; with any column kind from Bool to Timestamp, and a
\* driver that agrees with the statement, every failure is returned as Err.
C9_AsStated ==
    (st.op = "load" /\ st.pc = "done" /\ st.outcome = "panic" /\ DriverAgrees) =>
        \/ st.panic = "Returning queries need to be typed"
        \/ st.panic = "unreachable"

\* The widening policy for the native type of an OUT bind of a kind: integer
\* kinds a numeric of 5, 10, 19 digits, Bool a small integer numeric, the
\* floating kinds a binary float or double, Text and Binary variable-length
\* types of the adapter's maximum length.
FollowsWideningPolicy(kind, type) ==
    CASE kind = "SmallInt" -> type = [t |-> "Number", p |-> 5, s |-> 0]
      [] kind = "Integer" -> type = [t |-> "Number", p |-> 10, s |-> 0]
      [] kind = "BigInt" -> type = [t |-> "Number", p |-> 19, s |-> 0]
      [] kind = "Bool" -> type.t = "Number" /\ type.p <= 5 /\ type.s = 0
      [] kind \in {"Float", "Double"} -> type.t \in {"BinaryFloat", "BinaryDouble"}
      [] kind = "Text" -> type.t \in {"Varchar2", "NVarchar2"} /\ type.p = 2000000
      [] kind = "Binary" -> type.t = "Raw" /\ type.p = 2000000
      [] OTHER -> TRUE

\* The Rust type that holds a value of a kind.
MatchingType(kind) ==
    CASE kind \in {"Bool", "SmallInt"} -> "Option<i16>"
      [] kind = "Integer" -> "Option<i32>"
      [] kind = "BigInt" -> "Option<i64>"
      [] kind = "Float" -> "Option<f32>"
      [] kind = "Double" -> "Option<f64>"
      [] kind = "Text" -> "Option<String>"
      [] kind = "Binary" -> "Option<Vec<u8>>"
      [] kind = "Date" -> "Option<NaiveDate>"
      [] kind = "Time" -> "Option<NaiveTime>"
      [] kind = "Timestamp" -> "Option<NaiveDateTime>"

\* C11 as stated: in the bind list of a RETURNING load that succeeds the OUT bind of every
\* column is declared with the type the widening policy gives its kind, and
\* every list of returned values is drained with the type matching its column's
\* kind.
C11_AsStated ==
    (ReturningDone /\ st.outcome = "ok") =>
        LET I == Len(st.frag.values)
            executes == CallsNamed("execute_named")
            drains == CallsNamed("returned_values")
        IN  /\ executes # << >> =>
                  \A k \in 1..Len(st.metadata) :
                      FollowsWideningPolicy(st.metadata[k][1],
                                            executes[1].binds[I + k].value)
            /\ \A j \in 1..Len(drains) :
                  drains[j].type = MatchingType(st.metadata[j][1])
(***************************************************************************)
(* Properties of push_identifier (under SpecQB).                           *)
(***************************************************************************)
\* The bind counter before the i-th logged call of the current builder.
IdxBefore(i) == IF i = 1 THEN 0 ELSE qb_log[i - 1].idx

\* An identifier with every backtick doubled and every letter uppercased.
DoubledUppercased(name) ==
    Concat([i \in 1..Len(name) |->
               IF name[i] = Backtick THEN <<Backtick, Backtick>>
               ELSE <<UpperChar(name[i])>>])

\* C12: every push_identifier(name) appends, after the text already there and
\* leaving it unchanged, a double quote, name with every backtick doubled and
\* every letter uppercased, and a double quote, and leaves the bind counter as
\* it was; "user name" renders "USER NAME" and a, backtick, b renders "A``B".
C12_PushIdentifier ==
    \A i \in 1..Len(qb_log) :
        qb_log[i].op = "push_identifier" =>
            /\ qb_log[i].kept
            /\ qb_log[i].text = <<DQuote>> \o DoubledUppercased(qb_log[i].arg) \o <<DQuote>>
            /\ qb_log[i].idx = IdxBefore(i)
            /\ qb_log[i].arg = <<"u", "s", "e", "r", " ", "n", "a", "m", "e">> =>
                  qb_log[i].text
                    = <<DQuote, "U", "S", "E", "R", " ", "N", "A", "M", "E", DQuote>>
            /\ qb_log[i].arg = <<"a", Backtick, "b">> =>
                  qb_log[i].text = <<DQuote, "A", Backtick, Backtick, "B", DQuote>>

\* C12 witness: on a builder that already holds a placeholder and SQL text, the
\* identifier a, backtick, b has been pushed, after "user name".
C12_Witness ==
    /\ Len(qb_log) >= 3
    /\ qb_log[1].op = "push_bind_param"
    /\ \E i \in 2..(Len(qb_log) - 1) :
          /\ qb_log[i].op = "push_identifier"
          /\ qb_log[i].arg = <<"u", "s", "e", "r", " ", "n", "a", "m", "e">>
    /\ qb_log[Len(qb_log)].op = "push_identifier"
    /\ qb_log[Len(qb_log)].arg = <<"a", Backtick, "b">>
    /\ qb_log[Len(qb_log)].idx = 1
    /\ qb.sql = <<":", "i", "n", "0", DQuote, "U", "S", "E", "R", " ", "N", "A", "M", "E",
                  DQuote, DQuote, "A", Backtick, Backtick, "B", DQuote>>

RECURSIVE NoLoneQuote(_)
\* Every double quote of the text is one of a doubled pair.
NoLoneQuote(text) ==
    IF text = << >> THEN TRUE
    ELSE IF Head(text) = DQuote THEN
        /\ Len(text) >= 2
        /\ text[2] = DQuote
        /\ NoLoneQuote(Tail(Tail(text)))
    ELSE NoLoneQuote(Tail(text))

\* C15 as stated: the text every push_identifier appends, whatever the
\* identifier, opens and closes with a double quote and has no lone double
\* quote between the two.
C15_AsStated ==
    \A i \in 1..Len(qb_log) :
        qb_log[i].op = "push_identifier" =>
            LET text == qb_log[i].text
            IN  /\ Len(text) >= 2
                /\ text[1] = DQuote
                /\ text[Len(text)] = DQuote
                /\ NoLoneQuote(SubSeq(text, 2, Len(text) - 1))

(***************************************************************************)
(* Properties of load on a query (under SpecLoad).                         *)
(***************************************************************************)
QueryDone == st.op = "load" /\ st.shape = "query" /\ st.pc = "done"

\* The driver calls of preparing the statement of the load.
PrepareCalls == IF st.frag.safe_to_cache THEN 2 ELSE 3

\* C13: a load on a query calls query_named at most once, never execute_named,
\* with exactly the collected input binds in collection order; it returns rows
\* or an error, never panics; when it returns rows, every row of the result set
\* was fetched before (as many fetches as rows and the one finding the end),
\* the rows are all the rows in result-set order and share one column
\* information; when a fetch fails it returns that error and no row, never a
\* prefix; and however far the returned sequence has been iterated, the driver
\* calls are those made before load returned.
C13_LoadQueryAllOrNothing ==
    QueryDone =>
        LET queries == CallsNamed("query_named")
            fetches == CallsNamed("fetch")
            I == Len(st.frag.values)
        IN  /\ Len(queries) <= 1
            /\ CallsNamed("execute_named") = << >>
            /\ st.outcome \in {"ok", "err"}
            /\ queries # << >> =>
                  /\ Len(queries[1].binds) = I
                  /\ \A k \in 1..I :
                        /\ queries[1].binds[k].name = <<"i", "n">> \o Numeral[k]
                        /\ queries[1].binds[k].value = st.frag.values[k]
            /\ st.outcome = "ok" =>
                  /\ queries = <<[call |-> "query_named", binds |-> queries[1].binds,
                                  res |-> "ok"]>>
                  /\ Len(st.rows) = st.count
                  /\ \A i \in 1..st.count :
                        /\ st.rows[i].values = i
                        /\ st.rows[i].column_infos = st.rows[1].column_infos
                  /\ Len(fetches) = st.count + 1
                  /\ \A i \in 1..st.count : fetches[i].res = "ok"
                  /\ fetches[st.count + 1].res = "end"
                  /\ Len(st.calls) = PrepareCalls + 1 + st.count + 1
                  /\ st.taken <= st.count
            /\ st.outcome = "err" =>
                  /\ st.rows = << >>
                  /\ st.taken = 0
                  /\ st.err # NoError
            /\ \A i \in 1..Len(fetches) :
                  fetches[i].res \notin {"ok", "end"} =>
                      /\ i = Len(fetches)
                      /\ st.outcome = "err"
                      /\ st.err = From_ErrorHelper(fetches[i].res)

\* C13 witness: a query with two input binds returned both rows of its result
\* set, and the caller has iterated the sequence to its end.
C13_Witness ==
    /\ QueryDone
    /\ Len(st.frag.values) = 2
    /\ st.outcome = "ok"
    /\ st.count = 2
    /\ Len(st.rows) = 2
    /\ st.taken = 2

(***************************************************************************)
(* Properties of execute_returning_count (under SpecExec).                 *)
(***************************************************************************)
ExecDone == st.op = "execute_returning_count" /\ st.pc = "done"

\* The driver call that runs a statement of the shape.
RunCall == IF st.shape = "query" THEN "query_named" ELSE "execute_named"

\* The driver calls of a complete execute_returning_count, in order.
StepsInOrder ==
    <<"statement">>
    \o (IF st.frag.safe_to_cache THEN << >> ELSE <<"exclude_from_cache">>)
    \o <<"build", RunCall, "row_count">>

\* C14: the driver calls of execute_returning_count are an initial part of:
\* prepare (statement, exclusion from the cache, build), run, row count, so each
\* step follows the ones before it; a failing call is the last one and its
\* error is returned; a failure of rendering, preparation or bind collection
\* leaves the statement unexecuted; a built statement was excluded from the
\* cache exactly if the fragment is not safe to cache; the statement is run at
\* most once, and on success exactly once, by query_named if it is a query and
\* by execute_named if not, with the collected binds; on success the count
\* returned is the row count the driver reported.
C14_ExecuteReturningCount ==
    ExecDone =>
        LET n == Len(st.calls)
            runs == CallsNamed("query_named") \o CallsNamed("execute_named")
            counts == CallsNamed("row_count")
        IN  /\ n <= Len(StepsInOrder)
            /\ \A i \in 1..n : st.calls[i].call = StepsInOrder[i]
            /\ st.outcome \in {"ok", "err"}
            /\ \A i \in 1..n :
                  st.calls[i].res # "ok" =>
                      /\ i = n
                      /\ st.outcome = "err"
                      /\ st.err = From_ErrorHelper(st.calls[i].res)
            /\ (st.outcome = "err" /\ st.err = FragmentError) => runs = << >>
            /\ (CallsNamed("build") # << >> /\ CallsNamed("build")[1].res # "ok") =>
                  runs = << >>
            /\ CallsNamed("build") # << >> =>
                  (CallsNamed("exclude_from_cache") # << >> <=> ~st.frag.safe_to_cache)
            /\ Len(runs) <= 1
            /\ runs # << >> =>
                  /\ runs[1].call = RunCall
                  /\ Len(runs[1].binds) = Len(st.frag.values)
                  /\ \A k \in 1..Len(st.frag.values) :
                        /\ runs[1].binds[k].name = <<"i", "n">> \o Numeral[k]
                        /\ runs[1].binds[k].value = st.frag.values[k]
            /\ st.outcome = "ok" =>
                  /\ n = Len(StepsInOrder)
                  /\ Len(runs) = 1
                  /\ Len(counts) = 1
                  /\ st.count = counts[1].value
            /\ st.outcome = "err" => st.err # NoError

\* C14 witness: a statement that is not a query and not safe to cache, with two
\* binds, was prepared outside the cache and executed, and its row count of 2
\* returned.
C14_Witness ==
    /\ ExecDone
    /\ st.shape = "dml"
    /\ ~st.frag.safe_to_cache
    /\ Len(st.frag.values) = 2
    /\ st.outcome = "ok"
    /\ Len(st.calls) = 5
    /\ st.calls[2].call = "exclude_from_cache"
    /\ st.calls[4].call = "execute_named"
    /\ st.count = 2

=========================================================================
